---- MODULE Spec2Model ----
(***************************************************************************)
(* World Knowledge Trivia: the TriviaGame component as a state machine.    *)
(*                                                                         *)
(* The state is the persisted GameState object, the component's `loading`  *)
(* flag, the game-start requests whose image generation is still awaited,  *)
(* and the static question pool.  Each handler of the component is a pure  *)
(* function from the GameState it closes over to the GameState it stores.  *)
(*                                                                         *)
(*   Spec     the component as rendered: a handler runs only when the      *)
(*            button that calls it is on the screen and enabled.           *)
(*   SpecApi  the controller operations called directly, in any order and  *)
(*            with any argument, without the render conditions.            *)
(***************************************************************************)
EXTENDS Integers, Sequences, FiniteSets, TLC

\* ---------------------------------------------------------------- bounds
PoolSize == 2        \* questions in the static pool
MaxClock == 2        \* game starts per run of the rendered component
MaxApiStarts == 1    \* startGame() calls per run of the operations called directly
MaxGames == 2        \* sessions finished per run
MaxBatch == 1        \* questions one generation call returns

\* ------------------------------------------------------------- constants
NumOptions == 4      \* every question has four options

Difficulties == {"easy", "medium", "hard"}
AllCategories == "All Categories"
Null == "null"
NoImage == "undefined"
ImageUrl == "url"
NoSelection == << >>
Selected(i) == << i >>
NoError == << >>

VARIABLES
  gameState,   \* the GameState value held by useStorage
  loading,     \* useState(false)
  client,      \* whether useSubscribeDev() returned a client
  pool,        \* triviaQuestions, the static dataset
  inflight,    \* startGame() calls suspended at their await
  now,         \* Date.now()
  error,       \* useState<string | null>(null) of the generating component:
               \* NoError, or the parts of the message
  gen,         \* generateQuestions() calls suspended at an await
  hist         \* what the properties remember of a run; no handler reads it

vars == << gameState, loading, client, pool, inflight, now, error, gen, hist >>

\* ------------------------------------------------------------ questions
\* The kinds of question the pools are drawn from.
QuestionKinds ==
  << [difficulty |-> "easy", category |-> "World Geography",        correctAnswer |-> 0],
     [difficulty |-> "easy", category |-> "Science and Technology", correctAnswer |-> 3],
     [difficulty |-> "hard", category |-> "Science and Technology", correctAnswer |-> 1] >>

\* A TriviaQuestion: `question` is its text, here its number in the pool.
MkQuestion(n, kind) ==
  [ question      |-> n,
    difficulty    |-> kind.difficulty,
    category      |-> kind.category,
    correctAnswer |-> kind.correctAnswer,
    imageUrl      |-> NoImage ]

\* The datasets: PoolSize questions of any kinds.  A pool lists its kinds
\* in the order of QuestionKinds: the order of the dataset reaches the game
\* only through the filters, which keep it, and the shuffle, which yields
\* every order.
Pools ==
  { [n \in 1..PoolSize |-> MkQuestion(n, QuestionKinds[f[n]])] :
      f \in { g \in [1..PoolSize -> DOMAIN QuestionKinds] :
                \A a, b \in 1..PoolSize : a < b => g[a] <= g[b] } }

\* getCategories(): 'All Categories' and the categories of the pool.
getCategories(p) == {AllCategories} \cup { p[n].category : n \in DOMAIN p }

\* ------------------------------------------------------------- GameState
InitialGameState ==
  [ currentQuestionIndex |-> 0,
    score                |-> 0,
    questions            |-> << >>,
    answered             |-> FALSE,
    selectedAnswer       |-> NoSelection,
    gameStarted          |-> FALSE,
    selectedDifficulty   |-> Null,
    selectedCategory     |-> Null,
    lastPlayedAt         |-> 0,
    totalGamesPlayed     |-> 0,
    highScore            |-> 0 ]

\* ------------------------------------------------------- pure functions
\* handleDifficultySelect
withDifficulty(gs, difficulty) == [gs EXCEPT !.selectedDifficulty = difficulty]

\* handleCategorySelect
withCategory(gs, category) == [gs EXCEPT !.selectedCategory = category]

\* startGame's two filters (Array.prototype.filter keeps the order), by
\* difficulty and then, for a specific category, by category.
filterQuestions(p, difficulty, category) ==
  LET hasDifficulty(q) == q.difficulty = difficulty
      hasCategory(q)   == q.category = category
      byDifficulty     == SelectSeq(p, hasDifficulty)
  IN  IF category # Null /\ category # AllCategories
      THEN SelectSeq(byDifficulty, hasCategory)
      ELSE byDifficulty

\* A swap that writes shuffled[i] only.
SwapOverwrite(a, i, j) == [a EXCEPT ![i] = a[j]]

\* [shuffled[i], shuffled[j]] = [shuffled[j], shuffled[i]]  (1-based here)
Swap(a, i, j) == [a EXCEPT ![i] = a[j], ![j] = a[i]]

\* The loop of shuffleArray from position i down: every result that some
\* sequence of Math.random() values produces.
RECURSIVE ShuffleFrom(_, _)
ShuffleFrom(a, i) ==
  IF i <= 1 THEN {a}
  ELSE UNION { ShuffleFrom(swapped, i - 1) : swapped \in { Swap(a, i, j) : j \in 1..i } }

\* A shuffle followed by a slice that drops the last entry.
shuffleArraySample(a) ==
  { SubSeq(shuffled, 1, Len(shuffled) - 1) : shuffled \in ShuffleFrom(a, Len(a)) }

\* shuffleArray
shuffleArray(a) == ShuffleFrom(a, Len(a))

\* A Promise.all that leaves out the questions whose image generation failed.
withImagesDropsFailed(qs, failed) ==
  LET kept(q) == \A n \in failed : qs[n] # q
  IN  [n \in DOMAIN SelectSeq(qs, kept) |->
         [SelectSeq(qs, kept)[n] EXCEPT !.imageUrl = ImageUrl]]

\* The Promise.all over the shuffled questions: the questions whose image
\* generation failed (positions in `failed`) are returned as they are, the
\* others with an imageUrl.
withImages(qs, failed) ==
  [n \in DOMAIN qs |-> IF n \in failed THEN qs[n] ELSE [qs[n] EXCEPT !.imageUrl = ImageUrl]]

\* A start that does not reset the score.
startedStateKeepsScore(gs, questionsWithImages, t) ==
  [gs EXCEPT !.questions            = questionsWithImages,
             !.currentQuestionIndex = 0,
             !.answered             = FALSE,
             !.selectedAnswer       = NoSelection,
             !.gameStarted          = TRUE,
             !.lastPlayedAt         = t]

\* The GameState startGame stores when its await completes; gs is the
\* GameState the call closed over.
startedState(gs, questionsWithImages, t) ==
  [gs EXCEPT !.questions            = questionsWithImages,
             !.currentQuestionIndex = 0,
             !.score                = 0,
             !.answered             = FALSE,
             !.selectedAnswer       = NoSelection,
             !.gameStarted          = TRUE,
             !.lastPlayedAt         = t]

\* questions[currentQuestionIndex] is defined (0-based index).
HasCurrent(gs) ==
  gs.currentQuestionIndex >= 0 /\ gs.currentQuestionIndex < Len(gs.questions)

Current(gs) == gs.questions[gs.currentQuestionIndex + 1]

\* handleAnswerSelect without its `if (gameState.answered) return`.
answerSelectNoGuard(gs, answerIndex) ==
  IF ~HasCurrent(gs) THEN gs
  ELSE [gs EXCEPT !.selectedAnswer = Selected(answerIndex),
                  !.answered       = TRUE,
                  !.score          = IF answerIndex = Current(gs).correctAnswer
                                     THEN gs.score + 1 ELSE gs.score]

\* handleAnswerSelect comparing the stored selectedAnswer, not its argument.
answerSelectComparesSelected(gs, answerIndex) ==
  IF gs.answered THEN gs
  ELSE IF ~HasCurrent(gs) THEN gs
  ELSE [gs EXCEPT !.selectedAnswer = Selected(answerIndex),
                  !.answered       = TRUE,
                  !.score          = IF gs.selectedAnswer = Selected(Current(gs).correctAnswer)
                                     THEN gs.score + 1 ELSE gs.score]

\* handleAnswerSelect scoring every answer.
answerSelectAlwaysScores(gs, answerIndex) ==
  IF gs.answered THEN gs
  ELSE IF ~HasCurrent(gs) THEN gs
  ELSE [gs EXCEPT !.selectedAnswer = Selected(answerIndex),
                  !.answered       = TRUE,
                  !.score          = gs.score + 1]

\* handleAnswerSelect: returns early when answered; throws, storing
\* nothing, when there is no current question.
answerSelect(gs, answerIndex) ==
  IF gs.answered THEN gs
  ELSE IF ~HasCurrent(gs) THEN gs
  ELSE [gs EXCEPT !.selectedAnswer = Selected(answerIndex),
                  !.answered       = TRUE,
                  !.score          = IF answerIndex = Current(gs).correctAnswer
                                     THEN gs.score + 1 ELSE gs.score]

\* handleNextQuestion clearing the answer without moving to the next index.
nextQuestionKeepsIndex(gs) ==
  LET nextIndex == gs.currentQuestionIndex + 1
  IN  IF nextIndex < Len(gs.questions)
      THEN [gs EXCEPT !.answered       = FALSE,
                      !.selectedAnswer = NoSelection]
      ELSE [gs EXCEPT !.gameStarted      = FALSE,
                      !.totalGamesPlayed = gs.totalGamesPlayed + 1,
                      !.highScore        = IF gs.score > gs.highScore
                                           THEN gs.score ELSE gs.highScore]

\* handleNextQuestion moving on without clearing selectedAnswer.
nextQuestionKeepsSelection(gs) ==
  LET nextIndex == gs.currentQuestionIndex + 1
  IN  IF nextIndex < Len(gs.questions)
      THEN [gs EXCEPT !.currentQuestionIndex = nextIndex,
                      !.answered             = FALSE]
      ELSE [gs EXCEPT !.gameStarted      = FALSE,
                      !.totalGamesPlayed = gs.totalGamesPlayed + 1,
                      !.highScore        = IF gs.score > gs.highScore
                                           THEN gs.score ELSE gs.highScore]

\* handleNextQuestion storing the final score as the high score.
nextQuestionLastScoreIsHigh(gs) ==
  LET nextIndex == gs.currentQuestionIndex + 1
  IN  IF nextIndex < Len(gs.questions)
      THEN [gs EXCEPT !.currentQuestionIndex = nextIndex,
                      !.answered             = FALSE,
                      !.selectedAnswer       = NoSelection]
      ELSE [gs EXCEPT !.gameStarted      = FALSE,
                      !.totalGamesPlayed = gs.totalGamesPlayed + 1,
                      !.highScore        = gs.score]

\* handleNextQuestion
nextQuestion(gs) ==
  LET nextIndex == gs.currentQuestionIndex + 1
  IN  IF nextIndex < Len(gs.questions)
      THEN [gs EXCEPT !.currentQuestionIndex = nextIndex,
                      !.answered             = FALSE,
                      !.selectedAnswer       = NoSelection]
      ELSE [gs EXCEPT !.gameStarted      = FALSE,
                      !.totalGamesPlayed = gs.totalGamesPlayed + 1,
                      !.highScore        = IF gs.score > gs.highScore
                                           THEN gs.score ELSE gs.highScore]

\* restartGame leaving the selected filters as they are.
restartStateKeepsFilters(gs) ==
  [gs EXCEPT !.currentQuestionIndex = 0,
             !.score                = 0,
             !.answered             = FALSE,
             !.selectedAnswer       = NoSelection,
             !.gameStarted          = FALSE,
             !.questions            = << >>]

\* restartGame
restartState(gs) ==
  [gs EXCEPT !.currentQuestionIndex = 0,
             !.score                = 0,
             !.answered             = FALSE,
             !.selectedAnswer       = NoSelection,
             !.gameStarted          = FALSE,
             !.selectedDifficulty   = Null,
             !.selectedCategory     = Null,
             !.questions            = << >>]

\* quitGame leaving currentQuestionIndex as it is.
quitStateKeepsIndex(gs) ==
  [gs EXCEPT !.score              = 0,
             !.answered           = FALSE,
             !.selectedAnswer     = NoSelection,
             !.gameStarted        = FALSE,
             !.selectedDifficulty = Null,
             !.selectedCategory   = Null,
             !.questions          = << >>]

\* quitGame counting the abandoned session as played.
quitStateCountsGame(gs) ==
  [gs EXCEPT !.currentQuestionIndex = 0,
             !.score                = 0,
             !.answered             = FALSE,
             !.selectedAnswer       = NoSelection,
             !.gameStarted          = FALSE,
             !.selectedDifficulty   = Null,
             !.selectedCategory     = Null,
             !.questions            = << >>,
             !.totalGamesPlayed     = gs.totalGamesPlayed + 1,
             !.highScore            = IF gs.score > gs.highScore
                                      THEN gs.score ELSE gs.highScore]

\* quitGame
quitState(gs) ==
  [gs EXCEPT !.currentQuestionIndex = 0,
             !.score                = 0,
             !.answered             = FALSE,
             !.selectedAnswer       = NoSelection,
             !.gameStarted          = FALSE,
             !.selectedDifficulty   = Null,
             !.selectedCategory     = Null,
             !.questions            = << >>]

\* restartGame of the generating component: it has no filters to reset.
restartStateGen(gs) ==
  [gs EXCEPT !.currentQuestionIndex = 0,
             !.score                = 0,
             !.answered             = FALSE,
             !.selectedAnswer       = NoSelection,
             !.gameStarted          = FALSE,
             !.questions            = << >>]

\* The order generateQuestions asks for the difficulties in.
difficulties == << "easy", "medium", "hard" >>

\* What one client.run can return for a difficulty: triviaQuestionSchema
\* fixes the shape of a question, not how many there are.
Outputs(difficulty, call) ==
  { [n \in 1..len |->
       [ question      |-> << call, n >>,
         difficulty    |-> difficulty,
         category      |-> "World Geography",
         correctAnswer |-> (call + n) % NumOptions,
         imageUrl      |-> NoImage ]] : len \in 0..MaxBatch }

\* What client.run can throw: err.type and err.retryAfter (milliseconds, or
\* absent).
ClientErrors ==
  { [type |-> "insufficient_credits", retryAfter |-> Null],
    [type |-> "rate_limit_exceeded",  retryAfter |-> Null],
    [type |-> "rate_limit_exceeded",  retryAfter |-> << 1 >>],
    [type |-> "rate_limit_exceeded",  retryAfter |-> << 1000 >>],
    [type |-> "rate_limit_exceeded",  retryAfter |-> << 1001 >>],
    [type |-> "unknown",              retryAfter |-> Null] }

\* Math.ceil((err.retryAfter || 0) / 1000)
retryAfterSeconds(err) ==
  LET ms == IF err.retryAfter = Null THEN 0 ELSE err.retryAfter[1]
  IN  (ms + 999) \div 1000

\* The message the catch block of generateQuestions sets.
errorMessage(err) ==
  IF err.type = "insufficient_credits"
    THEN << "Insufficient credits. Please upgrade your plan to continue playing." >>
  ELSE IF err.type = "rate_limit_exceeded"
    THEN << "Rate limit exceeded. Please try again in ", retryAfterSeconds(err), " seconds." >>
  ELSE << "Failed to generate questions. Please try again." >>

\* The setGameState after the three calls.
generatedState(gs, allQuestions, t) ==
  [gs EXCEPT !.questions            = allQuestions,
             !.currentQuestionIndex = 0,
             !.score                = 0,
             !.answered             = FALSE,
             !.selectedAnswer       = NoSelection,
             !.gameStarted          = TRUE,
             !.lastPlayedAt         = t]

\* ---------------------------------------------------------------- render
\* const totalQuestions = gameState.questions.length
totalQuestions == Len(gameState.questions)

\* Which of the component's four screens the render returns.
Screen ==
  IF loading THEN "loading"
  ELSE IF gameState.gameStarted
          /\ gameState.currentQuestionIndex >= Len(gameState.questions) THEN "gameover"
  ELSE IF gameState.gameStarted /\ Len(gameState.questions) > 0 THEN "game"
  ELSE "start"

\* --------------------------------------------------------------- history
\* wrongPick: in the session started last, handleAnswerSelect was called
\* with an index other than the current question's correctAnswer.
\* lostQuestions: how many questions the generation that failed last had
\* collected from its earlier calls.
\* answers, advances: the calls of handleAnswerSelect that answered a
\* question, and of handleNextQuestion, since the session started.
\* finished, maxFinal: how many sessions reached their finish, and the
\* highest score one of them finished with.
NoHistory ==
  [ wrongPick |-> FALSE, lostQuestions |-> 0, answers |-> 0, advances |-> 0,
    finished |-> 0, maxFinal |-> 0 ]

\* A session begins or is given up: what is remembered of the session goes.
histSession ==
  [hist EXCEPT !.wrongPick = FALSE, !.lostQuestions = 0,
               !.answers = 0, !.advances = 0]

histAdvance ==
  IF gameState.currentQuestionIndex + 1 < Len(gameState.questions)
    THEN [hist EXCEPT !.advances = @ + 1]
    ELSE [hist EXCEPT !.advances = @ + 1,
                      !.finished = @ + 1,
                      !.maxFinal = IF gameState.score > @ THEN gameState.score ELSE @]

histAnswer(answerIndex) ==
  [hist EXCEPT !.wrongPick =
     @ \/ (HasCurrent(gameState) /\ answerIndex # Current(gameState).correctAnswer),
               !.answers =
     IF ~gameState.answered /\ HasCurrent(gameState) THEN @ + 1 ELSE @]

\* ------------------------------------------------------------------ Init
Init ==
  /\ gameState = InitialGameState
  /\ loading = FALSE
  /\ client \in BOOLEAN
  /\ pool \in Pools
  /\ inflight = << >>
  /\ now = 1
  /\ error = NoError
  /\ gen = << >>
  /\ hist = NoHistory

\* -------------------------------------------------------------- handlers
handleDifficultySelect(difficulty) ==
  /\ gameState' = withDifficulty(gameState, difficulty)
  /\ UNCHANGED << loading, client, pool, inflight, now, error, gen, hist >>

handleCategorySelect(category) ==
  /\ gameState' = withCategory(gameState, category)
  /\ UNCHANGED << loading, client, pool, inflight, now, error, gen, hist >>

\* startGame without its `if (!gameState.selectedDifficulty || !client) return`.
startGameNoGuard ==
  /\ loading' = TRUE
  /\ \E shuffledQuestions \in shuffleArray(
          filterQuestions(pool, gameState.selectedDifficulty,
                          gameState.selectedCategory)) :
       inflight' = Append(inflight,
                          [closure |-> gameState, shuffled |-> shuffledQuestions])
  /\ UNCHANGED << gameState, client, pool, now, error, gen, hist >>

\* startGame up to its await: the guard, setLoading(true), the filter and
\* the shuffle.  The call then waits for the image requests.
startGame ==
  /\ IF gameState.selectedDifficulty = Null \/ ~client
     THEN UNCHANGED vars
     ELSE /\ loading' = TRUE
          /\ \E shuffledQuestions \in shuffleArray(
                  filterQuestions(pool, gameState.selectedDifficulty,
                                  gameState.selectedCategory)) :
               inflight' = Append(inflight,
                                  [closure |-> gameState, shuffled |-> shuffledQuestions])
          /\ UNCHANGED << gameState, client, pool, now, error, gen, hist >>

\* startGame after its await: every image request has resolved or failed;
\* setGameState from the closed-over GameState, then setLoading(false).
\* A completion whose finally block does not run.
startGameResolveKeepsLoading ==
  \E k \in DOMAIN inflight :
    \E failed \in SUBSET (DOMAIN inflight[k].shuffled) :
      /\ gameState' = startedState(inflight[k].closure,
                                   withImages(inflight[k].shuffled, failed), now)
      /\ inflight' = [n \in 1..(Len(inflight) - 1) |->
                        IF n < k THEN inflight[n] ELSE inflight[n + 1]]
      /\ now' = now + 1
      /\ hist' = histSession
      /\ UNCHANGED << loading, client, pool, error, gen >>

startGameResolve ==
  \E k \in DOMAIN inflight :
    \E failed \in SUBSET (DOMAIN inflight[k].shuffled) :
      /\ gameState' = startedState(inflight[k].closure,
                                   withImages(inflight[k].shuffled, failed), now)
      /\ loading' = FALSE
      /\ inflight' = [n \in 1..(Len(inflight) - 1) |->
                        IF n < k THEN inflight[n] ELSE inflight[n + 1]]
      /\ now' = now + 1
      /\ hist' = histSession
      /\ UNCHANGED << client, pool, error, gen >>

handleAnswerSelect(answerIndex) ==
  /\ gameState' = answerSelect(gameState, answerIndex)
  /\ hist' = histAnswer(answerIndex)
  /\ UNCHANGED << loading, client, pool, inflight, now, error, gen >>

\* (a run finishes at most MaxGames sessions)
handleNextQuestion ==
  /\ \/ gameState.currentQuestionIndex + 1 < Len(gameState.questions)
     \/ gameState.totalGamesPlayed < MaxGames
  /\ gameState' = nextQuestion(gameState)
  /\ hist' = histAdvance
  /\ UNCHANGED << loading, client, pool, inflight, now, error, gen >>

restartGame ==
  /\ gameState' = restartState(gameState)
  /\ hist' = histSession
  /\ UNCHANGED << loading, client, pool, inflight, now, error, gen >>

quitGame ==
  /\ gameState' = quitState(gameState)
  /\ hist' = histSession
  /\ UNCHANGED << loading, client, pool, inflight, now, error, gen >>

\* generateQuestions up to its first await.
generateQuestions ==
  IF ~client
    THEN UNCHANGED vars
    ELSE /\ loading' = TRUE
         /\ error' = NoError
         /\ gen' = Append(gen, [closure |-> gameState, allQuestions |-> << >>, calls |-> 0])
         /\ hist' = [hist EXCEPT !.lostQuestions = 0]
         /\ UNCHANGED << gameState, client, pool, inflight, now >>

\* A client.run of generateQuestions returns: the questions are pushed, and
\* after the third the game is started.
clientRunResolves ==
  /\ gen # << >>
  /\ LET g    == gen[1]
         call == g.calls + 1
     IN  \E output \in Outputs(difficulties[call], call) :
           LET allQuestions == g.allQuestions \o output
           IN  IF call < Len(difficulties)
                 THEN /\ gen' = << [g EXCEPT !.allQuestions = allQuestions, !.calls = call] >>
                                  \o Tail(gen)
                      /\ UNCHANGED << gameState, loading, now, hist >>
                 ELSE /\ gameState' = generatedState(g.closure, allQuestions, now)
                      /\ loading' = FALSE
                      /\ gen' = Tail(gen)
                      /\ now' = now + 1
                      /\ hist' = histSession
  /\ UNCHANGED << client, pool, inflight, error >>

\* A client.run that throws and a catch block that also starts the game
\* with the questions collected so far.
clientRunRejectsKeepsPartial(err) ==
  /\ gen # << >>
  /\ gameState' = generatedState(gen[1].closure, gen[1].allQuestions, now)
  /\ error' = errorMessage(err)
  /\ loading' = FALSE
  /\ gen' = Tail(gen)
  /\ hist' = [hist EXCEPT !.lostQuestions = Len(gen[1].allQuestions)]
  /\ UNCHANGED << client, pool, inflight, now >>

\* A client.run of generateQuestions throws: catch, then finally.
clientRunRejects(err) ==
  /\ gen # << >>
  /\ error' = errorMessage(err)
  /\ loading' = FALSE
  /\ gen' = Tail(gen)
  /\ hist' = [hist EXCEPT !.lostQuestions = Len(gen[1].allQuestions)]
  /\ UNCHANGED << gameState, client, pool, inflight, now >>

\* restartGame of the generating component.
restartGameGen ==
  /\ gameState' = restartStateGen(gameState)
  /\ hist' = histSession
  /\ UNCHANGED << loading, client, pool, inflight, now, error, gen >>

\* ------------------------------------------------- the rendered component
ClickDifficulty ==
  /\ Screen = "start"
  /\ \E d \in Difficulties : handleDifficultySelect(d)

ClickCategory ==
  /\ Screen = "start"
  /\ \E c \in getCategories(pool) : handleCategorySelect(c)

\* The start button is disabled while loading or without a difficulty.
ClickStart ==
  /\ Screen = "start"
  /\ ~loading /\ gameState.selectedDifficulty # Null
  /\ now <= MaxClock
  /\ startGame

\* One button per option of the current question, disabled once answered.
ClickOption ==
  /\ Screen = "game"
  /\ ~gameState.answered
  /\ \E index \in 0..(NumOptions - 1) : handleAnswerSelect(index)

\* A next button rendered whether or not the question is answered.
ClickNextAlways ==
  /\ Screen = "game"
  /\ handleNextQuestion

\* A next button that does nothing on the last question.
ClickNextStopsAtLast ==
  /\ Screen = "game"
  /\ gameState.answered
  /\ gameState.currentQuestionIndex + 1 < Len(gameState.questions)
  /\ handleNextQuestion

\* The next button is rendered only when answered.
ClickNext ==
  /\ Screen = "game"
  /\ gameState.answered
  /\ handleNextQuestion

ClickQuit ==
  /\ Screen = "game"
  /\ quitGame

ClickPlayAgain ==
  /\ Screen = "gameover"
  /\ restartGame

ImagesSettled == startGameResolve

Next ==
  \/ ClickDifficulty
  \/ ClickCategory
  \/ ClickStart
  \/ ImagesSettled
  \/ ClickOption
  \/ ClickNext
  \/ ClickQuit
  \/ ClickPlayAgain

Spec == Init /\ [][Next]_vars

\* The rendered component over a dataset of PoolSize questions of one
\* difficulty and category, with a player who answers and advances whenever
\* the buttons are there, and image requests that all settle.
InitFair ==
  /\ gameState = InitialGameState
  /\ loading = FALSE
  /\ client \in BOOLEAN
  /\ pool = [n \in 1..PoolSize |-> MkQuestion(n, QuestionKinds[1])]
  /\ inflight = << >>
  /\ now = 1
  /\ error = NoError
  /\ gen = << >>
  /\ hist = NoHistory

SpecFair ==
  /\ InitFair
  /\ [][Next]_vars
  /\ WF_vars(ClickOption)
  /\ WF_vars(ClickNext)
  /\ WF_vars(ImagesSettled)

\* ------------------------------------------ the generating component
\* The older component, whose questions come from three generation calls.
\* Its render picks the screen by the same conditions.
InitGen ==
  /\ gameState = InitialGameState
  /\ loading = FALSE
  /\ client \in BOOLEAN
  /\ pool = << >>
  /\ inflight = << >>
  /\ now = 1
  /\ error = NoError
  /\ gen = << >>
  /\ hist = NoHistory

\* The start button: disabled={loading}.
GenClickStart ==
  /\ Screen = "start"
  /\ ~loading
  /\ now <= MaxClock
  /\ generateQuestions

GenCallResolves == clientRunResolves

GenCallRejects == \E err \in ClientErrors : clientRunRejects(err)

GenClickOption ==
  /\ Screen = "game"
  /\ ~gameState.answered
  /\ \E index \in 0..(NumOptions - 1) : handleAnswerSelect(index)

GenClickNext ==
  /\ Screen = "game"
  /\ gameState.answered
  /\ handleNextQuestion

GenClickPlayAgain ==
  /\ Screen = "gameover"
  /\ restartGameGen

NextGen ==
  \/ GenClickStart
  \/ GenCallResolves
  \/ GenCallRejects
  \/ GenClickOption
  \/ GenClickNext
  \/ GenClickPlayAgain

SpecGen == InitGen /\ [][NextGen]_vars

\* ------------------------------------------- the operations called directly
ApiSelectDifficulty == \E d \in Difficulties : handleDifficultySelect(d)

ApiSelectCategory == \E c \in getCategories(pool) : handleCategorySelect(c)

ApiStartGame ==
  /\ now + Len(inflight) <= MaxApiStarts
  /\ startGame

ApiStartGameResolve == startGameResolve

ApiSelectAnswer == \E index \in (-1)..NumOptions : handleAnswerSelect(index)

ApiAdvance == handleNextQuestion

ApiRestart == restartGame

ApiQuit == quitGame

NextApi ==
  \/ ApiSelectDifficulty
  \/ ApiSelectCategory
  \/ ApiStartGame
  \/ ApiStartGameResolve
  \/ ApiSelectAnswer
  \/ ApiAdvance
  \/ ApiRestart
  \/ ApiQuit

SpecApi == Init /\ [][NextApi]_vars

TypeOK ==
  /\ loading \in BOOLEAN
  /\ client \in BOOLEAN
  /\ pool \in Pools
  /\ now \in 1..(MaxClock + 1)
  /\ Len(inflight) <= 1
  /\ gameState.answered \in BOOLEAN
  /\ gameState.gameStarted \in BOOLEAN
  /\ gameState.score \in Nat
  /\ gameState.currentQuestionIndex \in Nat
  /\ gameState.totalGamesPlayed \in 0..MaxGames
  /\ gameState.highScore \in Nat
  /\ gameState.selectedDifficulty \in Difficulties \cup {Null}
  /\ gameState.selectedCategory \in getCategories(pool) \cup {Null}
  /\ Len(gameState.selectedAnswer) <= 1

\* ================================================================ claims
\* The vocabulary of the claims, stated apart from the handlers.
idx == gameState.currentQuestionIndex
score == gameState.score
questions == gameState.questions
answered == gameState.answered
Max(a, b) == IF a >= b THEN a ELSE b

\* A question without its image reference.
Strip(q) == [q EXCEPT !.imageUrl = NoImage]

\* q matches the difficulty d and the category c; no category and
\* 'All Categories' mean no category filter.
Matches(q, d, c) ==
  /\ q.difficulty = d
  /\ (c = Null \/ c = AllCategories \/ q.category = c)

MatchingCount(p, d, c) == Cardinality({ n \in DOMAIN p : Matches(p[n], d, c) })

Occurrences(qs, q) == Cardinality({ k \in DOMAIN qs : Strip(qs[k]) = q })

\* The selected filters match no question of the pool.
NoMatch(gs) == MatchingCount(pool, gs.selectedDifficulty, gs.selectedCategory) = 0

\* The option indices of a question, and indices outside them.
AnswerIndices == 0..(NumOptions - 1)
OutOfRange == { -1, NumOptions }

\* ---------------------------------------------------------------- C1
\* C1: the question list of a started game has as many entries as the pool
\* has entries matching the selected difficulty and category, and holds each
\* matching question exactly once and no other (a permutation of the
\* filtered pool, any order).
C1_StartedListIsPermutationOfFiltered ==
  gameState.gameStarted =>
    /\ Len(questions) = MatchingCount(pool, gameState.selectedDifficulty,
                                      gameState.selectedCategory)
    /\ \A n \in DOMAIN pool :
         Occurrences(questions, pool[n]) =
           IF Matches(pool[n], gameState.selectedDifficulty, gameState.selectedCategory)
           THEN 1 ELSE 0

\* A started game whose list is the filtered pool in another order, under a
\* specific category.
C1_Witness ==
  /\ gameState.gameStarted
  /\ gameState.selectedCategory \notin {Null, AllCategories}
  /\ Len(questions) >= 2
  /\ questions[1].question > questions[2].question

\* ---------------------------------------------------------------- C2
\* C2: selectAnswer(i) followed by selectAnswer(j) leaves score,
\* selectedAnswer and answered as selectAnswer(i) left them, for all i, j.
C2_SelectAnswerIdempotent ==
  [](
    \A i \in AnswerIndices \cup OutOfRange :
      \A first \in {answerSelect(gameState, i)} :
        \A j \in AnswerIndices \cup OutOfRange :
          \A second \in {answerSelect(first, j)} :
            /\ second.score = first.score
            /\ second.selectedAnswer = first.selectedAnswer
            /\ second.answered = first.answered )

\* A question answered wrongly: a second call with the correct index would
\* score if it were not ignored.
C2_Witness ==
  /\ gameState.gameStarted
  /\ answered
  /\ HasCurrent(gameState)
  /\ gameState.selectedAnswer # Selected(Current(gameState).correctAnswer)
  /\ answerSelect(gameState, Current(gameState).correctAnswer) = gameState

\* ---------------------------------------------------------------- C3
\* C3: while a game is played (started, with questions),
\* score <= currentQuestionIndex + (1 if answered else 0).
C3_ScoreInvariant ==
  (gameState.gameStarted /\ Len(questions) > 0) =>
    score <= idx + (IF answered THEN 1 ELSE 0)

\* The bound is met: every question so far answered correctly.
C3_Witness ==
  /\ gameState.gameStarted
  /\ idx >= 1
  /\ answered
  /\ score = idx + 1

\* ---------------------------------------------------------------- C4
\* C4: advance() on the last question sets gameStarted to false, highScore
\* to max(highScore, score), adds 1 to totalGamesPlayed and leaves score and
\* the question list unchanged.
C4_AdvanceOnLastFinishes ==
  [][ (handleNextQuestion /\ idx + 1 = Len(questions)) =>
        /\ gameState'.gameStarted = FALSE
        /\ gameState'.highScore = Max(gameState.highScore, score)
        /\ gameState'.totalGamesPlayed = gameState.totalGamesPlayed + 1
        /\ gameState'.score = score
        /\ gameState'.questions = questions ]_vars

\* A second session finished below the high score of the first.
C4_Witness ==
  /\ ~gameState.gameStarted
  /\ gameState.totalGamesPlayed = 2
  /\ Len(questions) > 0
  /\ idx + 1 = Len(questions)
  /\ score < gameState.highScore

\* ---------------------------------------------------------------- C5
\* C5: a startGame() whose filters match no question of the pool does not
\* start the game and leaves GameState as it was.
C5_EmptyFilterLeavesState ==
  [][ (startGameResolve /\ NoMatch(gameState)) =>
        /\ gameState'.gameStarted = gameState.gameStarted
        /\ gameState' = gameState ]_vars

\* ---------------------------------------------------------------- C6
\* C6: selectAnswer(i) on an unanswered current question records i, sets
\* answered, adds 1 to score iff i is the correct answer, and changes no
\* other field of GameState.
C6_SelectAnswerEffect ==
  [][ \A i \in AnswerIndices :
        (~answered /\ HasCurrent(gameState) /\ handleAnswerSelect(i)) =>
          /\ gameState'.selectedAnswer = Selected(i)
          /\ gameState'.answered = TRUE
          /\ gameState'.score =
               IF i = Current(gameState).correctAnswer THEN score + 1 ELSE score
          /\ gameState'.currentQuestionIndex = idx
          /\ gameState'.questions = questions
          /\ gameState'.gameStarted = gameState.gameStarted
          /\ gameState'.selectedDifficulty = gameState.selectedDifficulty
          /\ gameState'.selectedCategory = gameState.selectedCategory
          /\ gameState'.highScore = gameState.highScore
          /\ gameState'.totalGamesPlayed = gameState.totalGamesPlayed ]_vars

\* A wrong answer recorded on a later question, the score as it was.
C6_Witness ==
  /\ gameState.gameStarted
  /\ answered
  /\ idx >= 1
  /\ score = 1
  /\ gameState.selectedAnswer # Selected(Current(gameState).correctAnswer)

\* ---------------------------------------------------------------- C7
\* C7: selectAnswer(i) with i < 0 or i > 3 is a no-op: answered,
\* selectedAnswer and score stay as they were.
C7_OutOfRangeIsNoOp ==
  [][ \A i \in OutOfRange :
        handleAnswerSelect(i) =>
          /\ gameState'.answered = answered
          /\ gameState'.selectedAnswer = gameState.selectedAnswer
          /\ gameState'.score = score ]_vars

\* ---------------------------------------------------------------- C8
\* C8: advance() on an answered question that is not the last adds 1 to
\* currentQuestionIndex, clears answered and selectedAnswer, and changes
\* nothing else.
C8_AdvanceEffect ==
  [][ (answered /\ idx + 1 < Len(questions) /\ handleNextQuestion) =>
        /\ gameState'.currentQuestionIndex = idx + 1
        /\ gameState'.answered = FALSE
        /\ gameState'.selectedAnswer = NoSelection
        /\ [gameState' EXCEPT !.currentQuestionIndex = idx,
                              !.answered = answered,
                              !.selectedAnswer = gameState.selectedAnswer] = gameState
        /\ UNCHANGED << loading, client, pool, inflight, now, error, gen >> ]_vars

\* The second question of a session, not yet answered, after a correct first.
C8_Witness ==
  /\ gameState.gameStarted
  /\ idx = 1
  /\ ~answered
  /\ gameState.selectedAnswer = NoSelection
  /\ score = 1

\* ---------------------------------------------------------------- C9
\* C9: restart() and quit() can be called in every reachable state and give
\* the same result: index 0, score 0, not answered, no selected answer, not
\* started, no filters and no questions.
C9_RestartQuitReset ==
  \A r \in {restartState(gameState)}, q \in {quitState(gameState)} :
      /\ ENABLED restartGame
      /\ ENABLED quitGame
      /\ r = q
      /\ r.currentQuestionIndex = 0
      /\ r.score = 0
      /\ r.answered = FALSE
      /\ r.selectedAnswer = NoSelection
      /\ r.gameStarted = FALSE
      /\ r.selectedDifficulty = Null
      /\ r.selectedCategory = Null
      /\ r.questions = << >>

\* The state a quit or restart left after a game had been started.
C9_Witness ==
  /\ gameState.lastPlayedAt > 0
  /\ gameState = restartState(gameState)
  /\ gameState = quitState(gameState)

\* ---------------------------------------------------------------- C10
\* C10: a startGame() that completes sets index 0, score 0, answered false,
\* no selected answer, gameStarted true and the start timestamp, whatever
\* they were before, and leaves highScore, totalGamesPlayed and the filters
\* unchanged.
C10_StartResets ==
  [][ startGameResolve =>
        /\ gameState'.currentQuestionIndex = 0
        /\ gameState'.score = 0
        /\ gameState'.answered = FALSE
        /\ gameState'.selectedAnswer = NoSelection
        /\ gameState'.gameStarted = TRUE
        /\ gameState'.lastPlayedAt = now
        /\ gameState'.highScore = gameState.highScore
        /\ gameState'.totalGamesPlayed = gameState.totalGamesPlayed
        /\ gameState'.selectedDifficulty = gameState.selectedDifficulty
        /\ gameState'.selectedCategory = gameState.selectedCategory ]_vars

\* A second session just started after a finished one that scored.
C10_Witness ==
  /\ gameState.gameStarted
  /\ gameState.lastPlayedAt = 2
  /\ gameState.totalGamesPlayed = 1
  /\ gameState.highScore >= 1
  /\ idx = 0
  /\ score = 0
  /\ ~answered
  /\ Len(questions) > 0

\* ---------------------------------------------------------------- C11
\* C11: without a selected difficulty, or without a client, startGame
\* changes nothing in GameState, puts no image request in flight and does
\* not set loading.
C11_StartNeedsDifficulty ==
  (gameState.selectedDifficulty = Null \/ ~client) =>
    ~ENABLED (startGame /\ ~UNCHANGED << gameState, loading, inflight >>)

\* The start button pressed with a difficulty selected and no client.
C11_Witness ==
  /\ ~client
  /\ gameState.selectedDifficulty # Null
  /\ ENABLED ClickStart
  /\ ~loading
  /\ inflight = << >>

\* ---------------------------------------------------------------- C12
\* C12: a startGame() that completes after GameState was changed by a later
\* operation is discarded: it leaves GameState as the later operation left
\* it.
C12_StaleStartDiscarded ==
  [][ (startGameResolve /\ \A k \in DOMAIN inflight : inflight[k].closure # gameState) =>
        gameState' = gameState ]_vars

\* ---------------------------------------------------------------- C13
\* C13: when a generation call of generateQuestions fails, after however
\* many calls succeeded, GameState is as it was when generateQuestions was
\* called, loading is false, and the error message is the one of the cause:
\* insufficient credits, rate limit with the delay in whole seconds
\* (rounded up), or the generic failure.
C13_GenerationAllOrNothing ==
  [][ \A err \in ClientErrors :
        clientRunRejects(err) =>
          /\ gameState' = gameState
          /\ gameState' = gen[1].closure
          /\ loading' = FALSE
          /\ gen' = << >>
          /\ IF err.type = "insufficient_credits"
               THEN error' = << "Insufficient credits. Please upgrade your plan to continue playing." >>
             ELSE IF err.type = "rate_limit_exceeded"
               THEN /\ Len(error') = 3
                    /\ error'[1] = "Rate limit exceeded. Please try again in "
                    /\ error'[3] = " seconds."
                    /\ LET ms == IF err.retryAfter = Null THEN 0 ELSE err.retryAfter[1]
                       IN  /\ error'[2] * 1000 >= ms
                           /\ (error'[2] - 1) * 1000 < ms
             ELSE error' = << "Failed to generate questions. Please try again." >> ]_vars

\* A generation that failed by the rate limit after earlier calls had
\* returned questions, in a component that had finished a game before.
C13_Witness ==
  /\ Len(error) = 3
  /\ error[2] = 2
  /\ ~loading
  /\ hist.lostQuestions >= 1
  /\ gameState.totalGamesPlayed >= 1
  /\ Len(questions) >= 1

\* ---------------------------------------------------------------- C14
\* C14: whichever image requests fail, the start that is waiting for them
\* starts the game with every shuffled question in the same order (all the
\* questions matching the filters); a question has no image reference
\* exactly when its request failed.
C14_ImageFailureNonFatal ==
  [](
    \A k \in DOMAIN inflight :
      \A shuffled \in {inflight[k].shuffled} :
        /\ Len(shuffled) = MatchingCount(pool, inflight[k].closure.selectedDifficulty,
                                         inflight[k].closure.selectedCategory)
        /\ \A failed \in SUBSET (DOMAIN shuffled) :
             \A started \in {startedState(inflight[k].closure,
                                           withImages(shuffled, failed), now)} :
               /\ started.gameStarted
               /\ Len(started.questions) = Len(shuffled)
               /\ \A n \in DOMAIN shuffled :
                    /\ Strip(started.questions[n]) = shuffled[n]
                    /\ (started.questions[n].imageUrl = NoImage) <=> (n \in failed) )

\* A game started with the first image failed and the second generated.
C14_Witness ==
  /\ gameState.gameStarted
  /\ Len(questions) = 2
  /\ questions[1].imageUrl = NoImage
  /\ questions[2].imageUrl = ImageUrl

\* ---------------------------------------------------------------- C15
\* C15: a session of n >= 1 questions in which every selectAnswer picked the
\* correct answer finishes with score n, and highScore is then at least n.
C15_AllCorrectScoresAll ==
  [][ (handleNextQuestion /\ idx + 1 = Len(questions) /\ Len(questions) >= 1
         /\ answered /\ ~hist.wrongPick) =>
        /\ gameState'.score = Len(questions)
        /\ gameState'.highScore >= Len(questions) ]_vars

\* A finished session of two questions, both answered correctly.
C15_Witness ==
  /\ ~gameState.gameStarted
  /\ gameState.totalGamesPlayed >= 1
  /\ ~hist.wrongPick
  /\ Len(questions) = 2
  /\ score = 2
  /\ gameState.highScore = 2

\* The lists a and b hold the same questions, images aside.
IsPermutation(a, b) ==
  /\ Len(a) = Len(b)
  /\ \A q \in { Strip(b[n]) : n \in DOMAIN b } : Occurrences(a, q) = Occurrences(b, q)

\* ---------------------------------------------------------------- C16
\* C16: from a started session, restart(), the same filters selected again
\* and startGame() give, for every shuffle, a list that is a permutation of
\* the session's list.
C16_RestartThenStartSamePool ==
  [](
    gameState.gameStarted =>
      \A restarted \in {restartState(gameState)} :
        \A again \in {withDifficulty(restarted, gameState.selectedDifficulty)} :
          \A selected \in {IF gameState.selectedCategory = Null THEN again
                            ELSE withCategory(again, gameState.selectedCategory)} :
            \A filtered \in {filterQuestions(pool, selected.selectedDifficulty,
                                              selected.selectedCategory)} :
              \A shuffled \in shuffleArray(filtered) :
                \A started \in {startedState(selected, withImages(shuffled, {}), now)} :
                  IsPermutation(started.questions, questions) )

\* A second session of two questions started after the first was left
\* unfinished.
C16_Witness ==
  /\ gameState.gameStarted
  /\ gameState.lastPlayedAt = 2
  /\ gameState.totalGamesPlayed = 0
  /\ Len(questions) = 2

\* ---------------------------------------------------------------- C17
\* C17: after advance() on the last question of a game with at least one
\* question, currentQuestionIndex >= questions.length.
C17_FinishedIndexAtLength ==
  [][ (handleNextQuestion /\ idx + 1 = Len(questions) /\ Len(questions) >= 1) =>
        gameState'.currentQuestionIndex >= Len(gameState'.questions) ]_vars

\* ---------------------------------------------------------------- C18
\* C18: currentQuestionIndex increases, and a session is counted as played,
\* only from a state with answered = true.
C18_AdvanceOnlyWhenAnswered ==
  [][ (gameState'.currentQuestionIndex > idx
         \/ gameState'.totalGamesPlayed > gameState.totalGamesPlayed) =>
        answered ]_vars

\* A finished session of two questions: one advance and one finish.
C18_Witness ==
  /\ ~gameState.gameStarted
  /\ gameState.totalGamesPlayed = 1
  /\ idx = 1
  /\ answered

\* ---------------------------------------------------------------- C19
\* C19: 0 <= currentQuestionIndex <= questions.length in every state.
C19_IndexInRange ==
  /\ 0 <= idx
  /\ idx <= Len(questions)

\* The last question of a list of PoolSize questions is current.
C19_Witness ==
  /\ gameState.gameStarted
  /\ Len(questions) = PoolSize
  /\ idx = Len(questions) - 1

\* ---------------------------------------------------------------- C20
\* C20 as stated: while gameStarted, score <= currentQuestionIndex.
C20_ScoreAtMostIndex ==
  gameState.gameStarted => score <= idx

\* C20 amended: while gameStarted, score <= currentQuestionIndex as long as
\* the current question is unanswered, and score <= currentQuestionIndex + 1
\* once it is answered.
C20_ScoreAtMostIndexUnlessAnswered ==
  gameState.gameStarted =>
    IF answered THEN score <= idx + 1 ELSE score <= idx

\* An unanswered later question with every earlier one answered correctly.
C20_Witness ==
  /\ gameState.gameStarted
  /\ ~answered
  /\ idx >= 1
  /\ score = idx

\* ---------------------------------------------------------------- C21
\* C21: in every reachable state highScore is the highest score a session
\* finished with so far (0 when none) and totalGamesPlayed is the number of
\* sessions finished so far; no step lowers highScore.
C21_HighScoreIsMaxFinal ==
  /\ [](/\ gameState.highScore = hist.maxFinal
        /\ gameState.totalGamesPlayed = hist.finished)
  /\ [][gameState'.highScore >= gameState.highScore]_vars

\* Two sessions finished, the second with a lower score than the first.
C21_Witness ==
  /\ ~gameState.gameStarted
  /\ hist.finished = 2
  /\ Len(questions) >= 1
  /\ score < gameState.highScore

\* ---------------------------------------------------------------- C22
\* C22: in a started session the questions become current in list order,
\* each once: the advances so far are currentQuestionIndex, the answers so
\* far are that plus one when the current question is answered, an advance
\* before the last question moves to the next index, and a session ends
\* only by being given up (the list is emptied) or by its finish, which
\* comes with n answers and n advances and totalGamesPlayed one higher.
\* With a player who keeps answering and advancing, a started session of
\* n >= 1 questions eventually ends.
C22_SessionRunsToFinish ==
  /\ [](gameState.gameStarted =>
          /\ hist.advances = idx
          /\ hist.answers = idx + (IF answered THEN 1 ELSE 0))
  /\ [][ (handleNextQuestion /\ gameState.gameStarted /\ idx + 1 < Len(questions)) =>
           /\ gameState'.gameStarted
           /\ gameState'.currentQuestionIndex = idx + 1 ]_vars
  /\ [][ (gameState.gameStarted /\ ~gameState'.gameStarted) =>
           \/ gameState'.questions = << >>
           \/ /\ hist'.answers = Len(questions)
              /\ hist'.advances = Len(questions)
              /\ gameState'.totalGamesPlayed = gameState.totalGamesPlayed + 1 ]_vars
  /\ (gameState.gameStarted /\ Len(questions) >= 1) ~> ~gameState.gameStarted

\* A session of PoolSize questions finished after as many answers and
\* advances.
C22_Witness ==
  /\ ~gameState.gameStarted
  /\ Len(questions) = PoolSize
  /\ hist.answers = PoolSize
  /\ hist.advances = PoolSize
  /\ hist.finished = 1

\* ---------------------------------------------------------------- C23
\* C23: on the result screen the total of the percentage is greater than 0
\* and the score is within it, so round(score/total*100) is an integer in
\* 0..100; on the game screen the progress (index+1)/total*100 is greater
\* than 0 and at most 100.
C23_DerivedValuesDefined ==
  /\ Screen = "gameover" =>
       /\ totalQuestions > 0
       /\ score <= totalQuestions
  /\ Screen = "game" =>
       /\ totalQuestions > 0
       /\ (idx + 1) * 100 > 0
       /\ (idx + 1) * 100 <= 100 * totalQuestions

\* ---------------------------------------------------------------- C24
\* C24: after advance() on the last question of a game with at least one
\* question the game-over render condition holds: gameStarted and
\* currentQuestionIndex >= questions.length.
C24_FinishShowsGameOver ==
  [][ (handleNextQuestion /\ gameState.gameStarted
         /\ idx + 1 = Len(questions) /\ Len(questions) >= 1) =>
        /\ gameState'.gameStarted
        /\ gameState'.currentQuestionIndex >= Len(gameState'.questions) ]_vars

\* ---------------------------------------------------------------- C25
\* C25: quit() and restart() leave highScore and totalGamesPlayed as they
\* are, also when the score given up is above highScore; so does the
\* restart of the generating component.
C25_QuitRestartKeepStatistics ==
  [][ (quitGame \/ restartGame) =>
        /\ gameState'.highScore = gameState.highScore
        /\ gameState'.totalGamesPlayed = gameState.totalGamesPlayed
        /\ \A r \in {restartState(gameState), quitState(gameState),
                     restartStateGen(gameState)} :
             /\ r.highScore = gameState.highScore
             /\ r.totalGamesPlayed = gameState.totalGamesPlayed ]_vars

\* A game about to be quit with a score above the high score.
C25_Witness ==
  /\ gameState.gameStarted
  /\ score > gameState.highScore
  /\ gameState.totalGamesPlayed >= 1
  /\ ENABLED ClickQuit

\* ---------------------------------------------------------------- C26
\* C26: in every reachable state answered is true exactly when
\* selectedAnswer is not null.
C26_AnsweredIffSelected ==
  [](
    answered <=> (gameState.selectedAnswer # NoSelection) )

\* A later question, unanswered, after the answer before it was cleared.
C26_Witness ==
  /\ gameState.gameStarted
  /\ idx >= 1
  /\ ~answered
  /\ gameState.selectedAnswer = NoSelection
  /\ hist.answers >= 1

\* ---------------------------------------------------------------- C27
\* C27: while a start is waiting for its image requests, loading is true
\* and gameStarted is false; when the requests all settle, loading goes
\* back to false.
C27_StartReleasesLoading ==
  /\ [](inflight # << >> => (loading /\ ~gameState.gameStarted))
  /\ [](loading => inflight # << >>)
  /\ loading ~> ~loading

\* A start that has completed with an image that failed.
C27_Witness ==
  /\ ~loading
  /\ inflight = << >>
  /\ gameState.gameStarted
  /\ gameState.lastPlayedAt >= 1
  /\ Len(questions) >= 1
  /\ questions[1].imageUrl = NoImage
====
